---- MODULE Spec2Model ----
(***************************************************************************)
(* Model of py_wget_cookie.py: a single-shot command line program that     *)
(* resolves an output file name, loads browser cookies, issues one GET     *)
(* through a requests.Session and writes the response body to a file.     *)
(*                                                                         *)
(* Strings are sequences of one-character strings, bytes are sequences of  *)
(* small naturals.  The two external collaborators (browsercookie.load and *)
(* requests.Session.get), the file system and argparse are the             *)
(* environment: their outcomes are drawn nondeterministically.             *)
(***************************************************************************)
EXTENDS Integers, Sequences, FiniteSets, TLC

VARIABLES
    pc,               \* position of the single thread of control
    argv,             \* the command line: [url, output], each an Option
    target_url,       \* args.url (line 129)
    output_filename,  \* result of get_output_filename (line 130)
    url_parsed,       \* whether urlparse(url) has been called (line 93)
    cookie_jar,       \* local cookie_jar of download_with_cookies
    load_raised,      \* whether browsercookie.load() raised (line 33)
    session,          \* the requests.Session: [open, cookies, headers]
    requests_sent,    \* sequence of the GET requests issued (line 59)
    response,         \* Option: the response returned by session.get
    fs,               \* file system: file name -> Option(bytes)
    fs0,              \* the file system when the process started
    file_open,        \* set of file names currently open for writing
    io_fault,         \* which file operation failed: none/open/write/close
    stdout,           \* sequence of printed lines (records)
    trace,            \* sequence of the steps executed, in order
    get_error,        \* Option: the exception raised by session.get
    uncaught,         \* Option: an exception no handler caught
    exit_code         \* Option: the process exit status

vars == << pc, argv, target_url, output_filename, url_parsed, cookie_jar,
           load_raised, session, requests_sent, response, fs, fs0,
           file_open, io_fault, stdout, trace, get_error, uncaught,
           exit_code >>

(***************************************************************************)
(* Bounds of the model.                                                    *)
(***************************************************************************)
MaxTail == 4     \* longest URL tail appended to a prefix (resolver inputs)
MaxBody == 2     \* longest response body, in bytes

(***************************************************************************)
(* Python values.                                                          *)
(***************************************************************************)
None == [some |-> FALSE]
Some(v) == [some |-> TRUE, v |-> v]

\* Python truthiness of an optional string / container: None and the
\* empty value are false.
\* (variant: "is not None" instead of truthiness)
TruthySeq_NotNone(o) == o.some
TruthySeq(o) == o.some /\ o.v # << >>
TruthySet(o) == o.some /\ o.v # {}

Min(S) == CHOOSE x \in S : \A y \in S : x <= y
Max(S) == CHOOSE x \in S : \A y \in S : x >= y

\* All sequences over S of length at most n.
SeqsUpTo(S, n) == UNION { [1..k -> S] : k \in 0..n }

\* str.find(c, start) / str.rfind(c) with 1-based indexes; 0 when absent.
Find(s, c, start) ==
    LET I == { i \in start..Len(s) : s[i] = c }
    IN  IF I = {} THEN 0 ELSE Min(I)

RFind(s, c) ==
    LET I == { i \in 1..Len(s) : s[i] = c }
    IN  IF I = {} THEN 0 ELSE Max(I)

Contains(s, c) == \E i \in 1..Len(s) : s[i] = c

\* s[i:] with a 1-based first index.
From(s, i) == SubSeq(s, i, Len(s))
\* s[:i] keeping the characters strictly before 1-based index i.
Before(s, i) == SubSeq(s, 1, i - 1)

(***************************************************************************)
(* urllib.parse.urlparse, as called at line 93.                            *)
(***************************************************************************)
Alpha == { "a", "b", "e", "f", "h", "i", "l", "p", "t", "H", "T", "P" }
Digits == { "0", "1" }
scheme_chars == Alpha \cup Digits \cup { "+", "-", "." }

\* str.lower() on the characters of the model's alphabet.
LowerChar(c) ==
    CASE c = "H" -> "h"
      [] c = "T" -> "t"
      [] c = "P" -> "p"
      [] OTHER   -> c
Lower(s) == [ i \in 1..Len(s) |-> LowerChar(s[i]) ]

\* urllib.parse.uses_params, restricted to the schemes over the alphabet.
uses_params ==
    { << >>,
      << "f", "t", "p" >>,
      << "h", "t", "t", "p" >>,
      << "t", "e", "l" >> }

\* IPv6 literals accepted by _check_bracketed_host (ipaddress.ip_address).
ValidBracketedHosts == { << ":", ":", "1" >> }

\* Step 1 of urlsplit: the scheme, when the text before the first ':' starts
\* with a letter and holds scheme characters only.
SplitScheme(url) ==
    LET i == Find(url, ":", 1)
    IN  IF /\ i > 1
           /\ url[1] \in Alpha
           /\ \A j \in 1..(i - 1) : url[j] \in scheme_chars
        THEN [scheme |-> Lower(Before(url, i)), rest |-> From(url, i + 1)]
        ELSE [scheme |-> << >>, rest |-> url]

\* _splitnetloc(url, 2): the netloc ends at the first of "/", "?", "#".
SplitNetloc(url) ==
    LET D == { Find(url, c, 3) : c \in { "/", "?", "#" } } \ { 0 }
        delim == IF D = {} THEN Len(url) + 1 ELSE Min(D)
    IN  [netloc |-> SubSeq(url, 3, delim - 1), rest |-> From(url, delim)]

\* The ValueError cases of urlsplit ("Invalid IPv6 URL" and the bracketed
\* host check).
NetlocRaises(netloc) ==
    LET hasL == Contains(netloc, "[")
        hasR == Contains(netloc, "]")
    IN  \/ hasL /\ ~hasR
        \/ hasR /\ ~hasL
        \/ /\ hasL /\ hasR
           /\ LET afterL == From(netloc, Find(netloc, "[", 1) + 1)
                  r == Find(afterL, "]", 1)
                  host == IF r = 0 THEN afterL ELSE Before(afterL, r)
              IN  host \notin ValidBracketedHosts

\* url.split(c, 1)[0]
CutAt(url, c) ==
    LET i == Find(url, c, 1)
    IN  IF i = 0 THEN url ELSE Before(url, i)

\* _splitparams(url)[0]
SplitParams(url) ==
    IF Contains(url, "/")
    THEN LET i == Find(url, ";", RFind(url, "/"))
         IN  IF i = 0 THEN url ELSE Before(url, i)
    ELSE Before(url, Find(url, ";", 1))

\* urlparse(url): [raised, path].
urlparse(url) ==
    LET s  == SplitScheme(url)
        hasNetloc == Len(s.rest) >= 2 /\ s.rest[1] = "/" /\ s.rest[2] = "/"
        n  == IF hasNetloc THEN SplitNetloc(s.rest)
                           ELSE [netloc |-> << >>, rest |-> s.rest]
        p  == CutAt(CutAt(n.rest, "#"), "?")
        path == IF s.scheme \in uses_params /\ Contains(p, ";")
                THEN SplitParams(p) ELSE p
    IN  IF hasNetloc /\ NetlocRaises(n.netloc)
        THEN [raised |-> TRUE, path |-> << >>]
        ELSE [raised |-> FALSE, path |-> path]

\* os.path.basename (posixpath): the text after the last "/".
basename(p) == From(p, RFind(p, "/") + 1)

IndexHtml == << "i", "n", "d", "e", "x", ".", "h", "t", "m", "l" >>

\* get_output_filename(url, provided_filename): the returned name, whether
\* the url was parsed, whether an exception left the function, and the
\* lines printed (98, 103).
get_output_filename(url, provided_filename) ==
    IF TruthySeq(provided_filename)
    THEN [name |-> provided_filename.v, parsed |-> FALSE, raised |-> FALSE,
          printed |-> << >>]
    ELSE LET r == urlparse(url)
             filename == basename(r.path)
         IN  IF r.raised
             THEN [name |-> IndexHtml, parsed |-> TRUE, raised |-> FALSE,
                   printed |-> << [kind |-> "parse_failed"] >>]
             ELSE IF filename = << >>
                  THEN [name |-> IndexHtml, parsed |-> TRUE, raised |-> FALSE,
                        printed |-> << [kind |-> "default_index"] >>]
                  ELSE [name |-> filename, parsed |-> TRUE, raised |-> FALSE,
                        printed |-> << >>]

(***************************************************************************)
(* Inputs of the filename resolver: a prefix (scheme and authority forms)  *)
(* followed by every tail over TailChars of length at most MaxTail.        *)
(***************************************************************************)
UrlPrefixes ==
    { << >>,
      << "/", "/", "h" >>,
      << "h", "t", "t", "p", ":" >>,
      << "h", "t", "t", "p", ":", "/", "/", "h" >>,
      << "H", "T", "T", "P", ":", "/", "/", "h" >>,
      << "f", "i", "l", "e", ":", "/", "/", "h" >>,
      << "h", "t", "t", "p", ":", "/", "/", "[", "h" >>,
      << "h", "t", "t", "p", ":", "/", "/", "[", ":", ":", "1", "]" >> }

TailChars == { "/", "a", ".", ";", "?", "#", ":" }

ResolverURLs == { p \o t : p \in UrlPrefixes, t \in SeqsUpTo(TailChars, MaxTail) }

\* Values of the -o/--output option: absent, empty, and two names.
ProvidedNames == { None, Some(<< >>), Some(<< "x" >>), Some(<< "o", ".", "a" >>) }

(***************************************************************************)
(* The environment of a run.                                               *)
(***************************************************************************)
RunURLs ==
    { << "h", "t", "t", "p", ":", "/", "/", "h", "/", "a" >>,
      << "h", "t", "t", "p", ":", "/", "/", "h", "/" >>,
      << "h", "t", "t", "p", ":", "/", "/", "h", "/", "a", ";", "b", "?", "a" >>,
      << "h", "t", "t", "p", ":", "/", "/", "[", "h" >> }

\* Values of -o/--output in a run: absent, empty, a name.
RunProvided == { None, Some(<< >>), Some(<< "x" >>) }

\* Command lines: the positional url present or missing, -o given or not.
Invocations ==
    [ url : { None } \cup { Some(u) : u \in RunURLs }, output : RunProvided ]

Cookies == { "c1", "c2" }

\* browsercookie.load(): it returns a jar, or raises after having read
\* `jar` from the stores it could open.
LoadOutcomes == [ raised : BOOLEAN, jar : SUBSET Cookies ]

Bytes == { 0, 1 }
Bodies == SeqsUpTo(Bytes, MaxBody)

\* Final status codes of a GET (after redirects): HTTP status codes of the
\* classes 2xx to 5xx, with the values next to the limits of
\* raise_for_status.  Reason phrases are the server's choice.
Statuses == { 200, 304, 399, 400, 404, 499, 500, 599 }
Reasons == { "OK", "Not Found" }
Responses == [ status_code : Statuses, reason : Reasons, content : Bodies ]

\* Exception classes and their base classes (requests.exceptions and
\* builtins; IOError is OSError).
Ancestors(exc) ==
    CASE exc = "HTTPError" ->
            { "HTTPError", "RequestException", "IOError", "Exception" }
      [] exc \in { "ConnectionError", "Timeout", "SSLError",
                   "TooManyRedirects" } ->
            { exc, "RequestException", "IOError", "Exception" }
      [] exc \in { "PermissionError", "IsADirectoryError", "OSError" } ->
            { exc, "IOError", "Exception" }
      [] OTHER -> { exc, "Exception" }

\* Transport failures of session.get: connection/DNS, timeout, TLS.
TransportErrors == { "ConnectionError", "Timeout", "SSLError" }
\* Everything session.get can raise.
GetErrors == TransportErrors \cup { "TooManyRedirects", "UnicodeError" }
\* What open(), write() or close() can raise.
FileErrors == { "PermissionError", "IsADirectoryError", "OSError" }

\* Names a run can resolve, and the files that may exist beforehand.
FileNames ==
    { get_output_filename(u, o).name : u \in RunURLs, o \in RunProvided }
PriorContents == { None, Some(<< >>), Some(<< 1, 1, 0 >>) }

UserAgent == "Mozilla/5.0 (X11; Linux x86_64; rv:109.0) Gecko/20100101 Firefox/115.0"

\* argparse's exit status for a usage error.
UsageExitCode == 2
\* The interpreter's exit status for an uncaught exception.
TracebackExitCode == 1

(***************************************************************************)
(* Pieces of download_with_cookies.                                        *)
(***************************************************************************)
\* (variant: the except clause keeps what the failed load had gathered)
CookieJarAfterLoad_KeepPartial(o) == Some(o.jar)
\* Lines 23-37: cookie_jar after the try/except around browsercookie.load().
CookieJarAfterLoad(o) == IF o.raised THEN None ELSE Some(o.jar)

\* Lines 44-45: the session's cookies; a fresh Session has none.
SessionCookies(jar) == IF TruthySet(jar) THEN jar.v ELSE {}

\* (variant: only client errors are treated as errors)
RaisesForStatus_ClientOnly(status_code) == 400 <= status_code /\ status_code < 500
\* Line 62, Response.raise_for_status(): HTTPError for 4xx and 5xx.
RaisesForStatus(status_code) == 400 <= status_code /\ status_code < 600

\* (variants: IOError listed before RequestException, which it is a base
\* class of; no catch-all clause; no IOError clause)
Handlers_IOErrorFirst == << "HTTPError", "IOError", "RequestException", "Exception" >>
Handlers_NoCatchAll == << "HTTPError", "RequestException", "IOError" >>
Handlers_NoIOError == << "HTTPError", "RequestException", "Exception" >>
\* Lines 72-80: the except clauses, in order.
Handlers == << "HTTPError", "RequestException", "IOError", "Exception" >>

\* The index of the clause that catches exc; 0 when none does.
CaughtBy(exc) ==
    LET I == { i \in 1..Len(Handlers) : Handlers[i] \in Ancestors(exc) }
    IN  IF I = {} THEN 0 ELSE Min(I)

\* The line printed by the clause that catches exc (lines 73, 76, 78, 80).
HandlerMessage(exc, resp, file) ==
    CASE Handlers[CaughtBy(exc)] = "HTTPError" ->
            [kind |-> "http_error", status_code |-> resp.v.status_code,
             reason |-> resp.v.reason]
      [] Handlers[CaughtBy(exc)] = "RequestException" ->
            [kind |-> "network_error"]
      [] Handlers[CaughtBy(exc)] = "IOError" ->
            [kind |-> "file_error", file |-> file]
      [] OTHER ->
            [kind |-> "unexpected_error"]

\* The effect of raising exc inside the try block of lines 55-80.
Raise(exc) ==
    IF CaughtBy(exc) = 0
    THEN /\ uncaught' = Some(exc)
         /\ stdout' = stdout
    ELSE /\ uncaught' = uncaught
         /\ stdout' = Append(stdout, HandlerMessage(exc, response', output_filename))

\* (variant: mode 'ab', which keeps what the file held)
ContentAfterOpen_Append(prev) == IF prev.some THEN prev.v ELSE << >>
\* Line 67, mode 'wb': the content of the file once it is open.
ContentAfterOpen(prev) == << >>

\* Line 68: the content once `data` has been written at the end.
ContentAfterWrite(cur, data) == cur \o data

\* (variant: open/write/close without a with block: a raise skips close)
OpenAfterWith_SkipOnRaise(files, name, raised) ==
    IF raised THEN files ELSE files \ { name }
\* Lines 67-68 exit: the files still open once the with block is left,
\* whether the body of the block raised or not.
OpenAfterWith(files, name, raised) == files \ { name }

\* Line 41 exit: the session once the with block is left.
SessionAfterWith(s) == [s EXCEPT !.open = FALSE]

\* (variant: the request is retried after a failure)
AfterRequestFailure_Retry == "get"
\* Where control goes after the handler of a failed request (lines 75-76).
AfterRequestFailure == "exit_session"

\* The prefixes of a byte string: what a failed write or flush can leave.
BytePrefixes(b) == { SubSeq(b, 1, k) : k \in 0..Len(b) }

(***************************************************************************)
(* The run.                                                                *)
(***************************************************************************)
Init ==
    /\ pc = "parse_args"
    /\ argv \in Invocations
    /\ target_url = None
    /\ output_filename = << >>
    /\ url_parsed = FALSE
    /\ cookie_jar = None
    /\ load_raised = FALSE
    /\ session = None
    /\ requests_sent = << >>
    /\ response = None
    /\ \E prior \in PriorContents : fs = [ n \in FileNames |-> prior ]
    /\ fs0 = fs
    /\ file_open = {}
    /\ io_fault = "none"
    /\ stdout = << >>
    /\ trace = << >>
    /\ get_error = None
    /\ uncaught = None
    /\ exit_code = None

\* Line 126: parser.parse_args().  A missing url is a usage error: the
\* process exits at once.
ParseArgs ==
    /\ pc = "parse_args"
    /\ IF argv.url.some
       THEN /\ pc' = "resolve"
            /\ target_url' = argv.url
            /\ UNCHANGED exit_code
       ELSE /\ pc' = "exited"
            /\ exit_code' = Some(UsageExitCode)
            /\ UNCHANGED target_url
    /\ UNCHANGED << argv, output_filename, url_parsed, cookie_jar, load_raised,
                    session, requests_sent, response, fs, fs0, file_open,
                    io_fault, stdout, trace, get_error, uncaught >>

\* Lines 129-130: output_filename = get_output_filename(target_url, args.output)
ResolveFilename ==
    /\ pc = "resolve"
    /\ LET r == get_output_filename(target_url.v, argv.output)
       IN  /\ output_filename' = r.name
           /\ url_parsed' = r.parsed
           /\ IF r.raised
              THEN /\ uncaught' = Some("ValueError")
                   /\ pc' = "return"
              ELSE /\ uncaught' = uncaught
                   /\ pc' = "load_cookies"
           /\ stdout' = stdout \o r.printed
    /\ trace' = Append(trace, "resolve")
    /\ UNCHANGED << argv, target_url, cookie_jar, load_raised, session,
                    requests_sent, response, fs, fs0, file_open, io_fault,
                    get_error, exit_code >>

\* Lines 21-37: the cookie loader.
LoadCookies ==
    /\ pc = "load_cookies"
    /\ \E o \in LoadOutcomes :
          /\ cookie_jar' = CookieJarAfterLoad(o)
          /\ load_raised' = o.raised
          /\ stdout' = stdout \o
                 << [kind |-> "loading_cookies"],
                    IF o.raised THEN [kind |-> "cookie_error"]
                    ELSE IF o.jar = {} THEN [kind |-> "no_cookies"]
                    ELSE [kind |-> "cookies_loaded", n |-> Cardinality(o.jar)] >>
    /\ pc' = "open_session"
    /\ trace' = Append(trace, "load_cookies")
    /\ UNCHANGED << argv, target_url, output_filename, url_parsed, session,
                    requests_sent, response, fs, fs0, file_open, io_fault,
                    get_error, uncaught, exit_code >>

\* Lines 41-53: enter the session block, load cookies and User-Agent.
OpenSession ==
    /\ pc = "open_session"
    /\ session' = Some([open |-> TRUE, cookies |-> SessionCookies(cookie_jar),
                        user_agent |-> UserAgent])
    /\ stdout' = Append(stdout, [kind |-> "downloading", url |-> target_url.v])
    /\ pc' = "get"
    /\ trace' = Append(trace, "open_session")
    /\ UNCHANGED << argv, target_url, output_filename, url_parsed, cookie_jar,
                    load_raised, requests_sent, response, fs, fs0, file_open,
                    io_fault, get_error, uncaught, exit_code >>

\* Line 59: response = session.get(url, allow_redirects=True), and the
\* handlers of lines 75-80 when it raises.
Get ==
    /\ pc = "get"
    /\ requests_sent' = Append(requests_sent,
            [method |-> "GET", url |-> target_url.v,
             cookies |-> session.v.cookies,
             user_agent |-> session.v.user_agent,
             allow_redirects |-> TRUE])
    /\ \/ /\ response' \in { Some(r) : r \in Responses }
          /\ pc' = "raise_for_status"
          /\ UNCHANGED << get_error, uncaught, stdout >>
       \/ \E exc \in GetErrors :
             /\ get_error' = Some(exc)
             /\ response' = response
             /\ Raise(exc)
             /\ pc' = AfterRequestFailure
    /\ trace' = Append(trace, "get")
    /\ UNCHANGED << argv, target_url, output_filename, url_parsed, cookie_jar,
                    load_raised, session, fs, fs0, file_open, io_fault,
                    exit_code >>

\* Line 62: response.raise_for_status(), and the handler of lines 72-74.
RaiseForStatus ==
    /\ pc = "raise_for_status"
    /\ response' = response
    /\ IF RaisesForStatus(response.v.status_code)
       THEN /\ Raise("HTTPError")
            /\ pc' = "exit_session"
       ELSE /\ pc' = "open_file"
            /\ UNCHANGED << uncaught, stdout >>
    /\ trace' = Append(trace, "raise_for_status")
    /\ UNCHANGED << argv, target_url, output_filename, url_parsed, cookie_jar,
                    load_raised, session, requests_sent, fs, fs0, file_open,
                    io_fault, get_error, exit_code >>

\* Line 67: open(output_file, 'wb') creates or truncates the file, or
\* raises and leaves the file system as it was.
OpenFile ==
    /\ pc = "open_file"
    /\ response' = response
    /\ \/ /\ fs' = [fs EXCEPT ![output_filename] =
                                Some(ContentAfterOpen(fs[output_filename]))]
          /\ file_open' = file_open \cup { output_filename }
          /\ pc' = "write"
          /\ UNCHANGED << io_fault, uncaught, stdout >>
       \/ \E exc \in FileErrors :
             /\ io_fault' = "open"
             /\ Raise(exc)
             /\ pc' = "exit_session"
             /\ UNCHANGED << fs, file_open >>
    /\ trace' = Append(trace, "open_file")
    /\ UNCHANGED << argv, target_url, output_filename, url_parsed, cookie_jar,
                    load_raised, session, requests_sent, fs0, get_error,
                    exit_code >>

\* Line 68: f.write(response.content).  A failing write leaves some prefix
\* of the body in the file.
WriteFile ==
    /\ pc = "write"
    /\ \/ /\ fs' = [fs EXCEPT ![output_filename] =
                      Some(ContentAfterWrite(fs[output_filename].v, response.v.content))]
          /\ UNCHANGED io_fault
       \/ /\ \E part \in BytePrefixes(response.v.content) :
                fs' = [fs EXCEPT ![output_filename] =
                         Some(ContentAfterWrite(fs[output_filename].v, part))]
          /\ io_fault' = "write"
    /\ pc' = "close_file"
    /\ trace' = Append(trace, "write")
    /\ UNCHANGED << argv, target_url, output_filename, url_parsed, cookie_jar,
                    load_raised, session, requests_sent, response, file_open,
                    fs0, stdout, get_error, uncaught, exit_code >>

\* Leaving the with block of line 67: the file is closed whether or not the
\* write raised, and closing flushes, which can fail and leave a prefix of
\* what was written.  Then line 70 or the handler of lines 77-78.
CloseFile ==
    /\ pc = "close_file"
    /\ response' = response
    /\ file_open' = OpenAfterWith(file_open, output_filename, io_fault = "write")
    /\ IF io_fault = "write"
       THEN /\ \E exc \in FileErrors : Raise(exc)
            /\ UNCHANGED << fs, io_fault >>
       ELSE \/ /\ stdout' = Append(stdout, [kind |-> "success", file |-> output_filename])
               /\ UNCHANGED << fs, io_fault, uncaught >>
            \/ /\ \E part \in BytePrefixes(fs[output_filename].v) :
                     fs' = [fs EXCEPT ![output_filename] = Some(part)]
               /\ io_fault' = "close"
               /\ \E exc \in FileErrors : Raise(exc)
    /\ pc' = "exit_session"
    /\ trace' = Append(trace, "close_file")
    /\ UNCHANGED << argv, target_url, output_filename, url_parsed, cookie_jar,
                    load_raised, session, requests_sent, fs0, get_error,
                    exit_code >>

\* Leaving the with block of line 41: the session is closed.
ExitSession ==
    /\ pc = "exit_session"
    /\ session' = Some(SessionAfterWith(session.v))
    /\ pc' = "return"
    /\ trace' = Append(trace, "exit_session")
    /\ UNCHANGED << argv, target_url, output_filename, url_parsed, cookie_jar,
                    load_raised, requests_sent, response, fs, fs0, file_open,
                    io_fault, stdout, get_error, uncaught, exit_code >>

\* End of the script (after line 133): the interpreter exits, with a
\* traceback status when an exception was not caught.
Exit ==
    /\ pc = "return"
    /\ exit_code' = IF uncaught.some THEN Some(TracebackExitCode) ELSE Some(0)
    /\ pc' = "exited"
    /\ UNCHANGED << argv, target_url, output_filename, url_parsed, cookie_jar,
                    load_raised, session, requests_sent, response, fs, fs0,
                    file_open, io_fault, stdout, trace, get_error, uncaught >>

Next ==
    \/ ParseArgs
    \/ ResolveFilename
    \/ LoadCookies
    \/ OpenSession
    \/ Get
    \/ RaiseForStatus
    \/ OpenFile
    \/ WriteFile
    \/ CloseFile
    \/ ExitSession
    \/ Exit

Spec == Init /\ [][Next]_vars

(***************************************************************************)
(* The filename resolver alone: the state after parse_args for every url   *)
(* of ResolverURLs and every -o value, then lines 129-130.                 *)
(***************************************************************************)
InitResolve ==
    /\ pc = "resolve"
    /\ \E u \in ResolverURLs, o \in ProvidedNames :
          /\ argv = [url |-> Some(u), output |-> o]
          /\ target_url = Some(u)
    /\ output_filename = << >>
    /\ url_parsed = FALSE
    /\ cookie_jar = None
    /\ load_raised = FALSE
    /\ session = None
    /\ requests_sent = << >>
    /\ response = None
    /\ fs = [ n \in FileNames |-> None ]
    /\ fs0 = fs
    /\ file_open = {}
    /\ io_fault = "none"
    /\ stdout = << >>
    /\ trace = << >>
    /\ get_error = None
    /\ uncaught = None
    /\ exit_code = None

NextResolve == ResolveFilename

SpecResolve == InitResolve /\ [][NextResolve]_vars

(***************************************************************************)
(* The path component of a URL as RFC 3986 splits it                       *)
(* (scheme ":" ["//" authority] path ["?" query] ["#" fragment]), and its  *)
(* final segment.                                                          *)
(***************************************************************************)
RFCPath(url) ==
    LET colon == { i \in 2..Len(url) :
                      /\ url[i] = ":"
                      /\ url[1] \in Alpha
                      /\ \A j \in 1..(i - 1) : url[j] \in scheme_chars }
        hier  == IF colon = {} THEN 1 ELSE Min(colon) + 1
        hasAuthority == /\ hier + 1 <= Len(url)
                        /\ url[hier] = "/" /\ url[hier + 1] = "/"
        stops(from, S) == { i \in from..Len(url) : url[i] \in S }
        first == IF ~hasAuthority THEN hier
                 ELSE Min(stops(hier + 2, { "/", "?", "#" }) \cup { Len(url) + 1 })
        last  == Min(stops(first, { "?", "#" }) \cup { Len(url) + 1 }) - 1
    IN  SubSeq(url, first, last)

FinalSegment(path) ==
    LET slashes == { i \in 1..Len(path) : path[i] = "/" }
    IN  SubSeq(path, Max(slashes \cup { 0 }) + 1, Len(path))

Resolved == pc = "load_cookies" \/ (pc = "return" /\ trace = << "resolve" >>)

\* C5: with no provided filename the resolver returns the final segment of
\* the url's path component when that segment is not empty, "index.html"
\* when it is empty (the url ends in "/" or has no path) or when the url
\* cannot be parsed, and it never raises.
C5_FinalSegmentOrIndex ==
    (Resolved /\ ~argv.output.some) =>
        /\ ~uncaught.some
        /\ LET seg == FinalSegment(RFCPath(target_url.v))
           IN  output_filename =
                  IF urlparse(target_url.v).raised \/ seg = << >>
                  THEN IndexHtml ELSE seg

\* The part of C5 the code satisfies: the statement holds for every url
\* whose final path segment holds no ";".
C5_HoldsWithoutParams ==
    (Resolved /\ ~argv.output.some
       /\ ~Contains(FinalSegment(RFCPath(target_url.v)), ";")) =>
        /\ ~uncaught.some
        /\ LET seg == FinalSegment(RFCPath(target_url.v))
           IN  output_filename =
                  IF urlparse(target_url.v).raised \/ seg = << >>
                  THEN IndexHtml ELSE seg

\* C6: a non-empty provided filename is returned unchanged whatever the
\* url, which is not parsed; an empty provided filename counts as not
\* provided and the name is inferred from the url.
C6_ProvidedUnchanged ==
    Resolved =>
        /\ TruthySeq(argv.output) =>
              /\ output_filename = argv.output.v
              /\ ~url_parsed
              /\ stdout = << >>
        /\ (argv.output.some /\ argv.output.v = << >>) =>
              /\ url_parsed
              /\ output_filename = get_output_filename(target_url.v, None).name

C6_Witness ==
    /\ Resolved
    /\ argv.output = Some(<< "o", ".", "a" >>)
    /\ output_filename = << "o", ".", "a" >>
    /\ basename(urlparse(target_url.v).path) = << "a" >>

(***************************************************************************)
(* Properties of a run.                                                    *)
(***************************************************************************)
OutcomeKinds ==
    { "success", "http_error", "network_error", "file_error", "unexpected_error" }
IsOutcome(m) == m.kind \in OutcomeKinds
\* The outcome lines printed so far (lines 70, 73, 76, 78, 80).
Outcomes == SelectSeq(stdout, IsOutcome)

InTrace(e) == \E i \in 1..Len(trace) : trace[i] = e
Returned == pc \in { "return", "exited" }
StatusIsError == response.some /\ response.v.status_code >= 400

\* C1: when browsercookie.load() raises, the exception does not leave
\* download_with_cookies, and the run issues the GET to the url with an
\* empty cookie set.
C1_LoadFailureAbsorbed ==
    load_raised =>
        /\ cookie_jar = None
        /\ ~uncaught.some
        /\ session.some => session.v.cookies = {}
        /\ pc \notin { "open_session", "get" } =>
              /\ Len(requests_sent) = 1
              /\ requests_sent[1].method = "GET"
              /\ requests_sent[1].url = target_url.v
              /\ requests_sent[1].cookies = {}
        /\ exit_code.some => exit_code.v = 0

C1_Witness ==
    /\ load_raised
    /\ pc = "exited"
    /\ Len(requests_sent) = 1
    /\ Len(Outcomes) = 1 /\ Outcomes[1].kind = "success"

\* C2: when the GET ends with a status below 400 and the file can be opened
\* and written, the file at output_path holds exactly the response body
\* once download_with_cookies has returned, whatever it held before; no
\* other file changes.
C2_FileHoldsBody ==
    (Returned /\ response.some /\ response.v.status_code < 400
       /\ io_fault = "none") =>
        /\ fs[output_filename] = Some(response.v.content)
        /\ \A n \in FileNames \ { output_filename } : fs[n] = fs0[n]

C2_Witness ==
    /\ pc = "exited"
    /\ response.some /\ response.v.status_code = 200
    /\ response.v.content = << 0, 1 >>
    /\ io_fault = "none"
    /\ fs0[output_filename] = Some(<< 1, 1, 0 >>)
    /\ fs[output_filename] = Some(<< 0, 1 >>)

C4_NetworkErrorNoFile ==
    (get_error.some /\ get_error.v \in TransportErrors) =>
        /\ fs = fs0
        /\ file_open = {}
        /\ ~InTrace("open_file")
        /\ ~response.some
        /\ Outcomes = << [kind |-> "network_error"] >>

C4_Witness ==
    /\ pc = "exited"
    /\ get_error = Some("Timeout")
    /\ fs0[output_filename].some
    /\ Len(Outcomes) = 1

\* C7: the exit code is non-zero only for a malformed command line: a run
\* without the url exits non-zero before the cookie loader or any request
\* runs, and every run that reaches the downloader exits 0 whatever the
\* outcome of the download.
C7_ExitCodes ==
    /\ ~argv.url.some => (trace = << >> /\ requests_sent = << >> /\ stdout = << >>)
    /\ exit_code.some =>
          /\ exit_code.v # 0 <=> ~argv.url.some
          /\ InTrace("load_cookies") => exit_code.v = 0

C7_Witness ==
    /\ exit_code = Some(0)
    /\ Len(Outcomes) = 1 /\ Outcomes[1].kind = "unexpected_error"

\* The steps of a run in program order.
Steps ==
    << "resolve", "load_cookies", "open_session", "get", "raise_for_status",
       "open_file", "write", "close_file", "exit_session" >>
Rank(e) == CHOOSE i \in 1..Len(Steps) : Steps[i] = e
PrecededBy(e, before) ==
    \A i \in 1..Len(trace) :
        trace[i] = e => \A b \in before : \E j \in 1..(i - 1) : trace[j] = b

\* C8: the steps run in the fixed order filename resolution, cookie
\* loading, download; at most one GET is issued per run, also after a
\* failure; the file is opened only after the request has returned and its
\* status has been checked.
C8_OrderSingleGet ==
    /\ \A i, j \in 1..Len(trace) : i < j => Rank(trace[i]) < Rank(trace[j])
    /\ Len(requests_sent) <= 1
    /\ Len(requests_sent) = Cardinality({ i \in 1..Len(trace) : trace[i] = "get" })
    /\ PrecededBy("load_cookies", { "resolve" })
    /\ PrecededBy("get", { "resolve", "load_cookies" })
    /\ PrecededBy("open_file", { "get", "raise_for_status" })
    /\ InTrace("open_file") => (response.some /\ ~StatusIsError)
    /\ (Outcomes # << >> /\ Outcomes[1].kind # "success") => pc \notin { "get" }

C8_Witness ==
    /\ pc = "exited"
    /\ get_error = Some("ConnectionError")
    /\ trace = << "resolve", "load_cookies", "open_session", "get", "exit_session" >>

\* C9: the output file, once opened, is closed on every exit path,
\* including when the write raises, and so is the session: neither is open
\* when download_with_cookies has returned.
C9_ResourcesReleased ==
    /\ Returned => file_open = {}
    /\ (Returned /\ session.some) => ~session.v.open
    /\ pc \notin { "write", "close_file" } => file_open = {}

C9_Witness ==
    /\ pc = "exited"
    /\ io_fault = "write"
    /\ InTrace("close_file")
    /\ session.some /\ ~session.v.open

====
